---- MODULE Spec2Model ----
(***************************************************************************)
(* GoDNS: the supervisor (dnsLoop) and the per-domain update loops of the  *)
(* Cloudflare, DNSPod, HE and AliDNS handlers.                             *)
(*                                                                         *)
(* A loop instance is a goroutine; it advances by one step per action: the *)
(* head of an iteration (sleep, current IP, provider-wide lookups) and     *)
(* then one step per sub domain (per record for Cloudflare).  The answers  *)
(* of the collaborators (IP echo service, interface, resolver, provider)   *)
(* are inputs of the steps.  A step may panic at any of its calls.         *)
(***************************************************************************)
EXTENDS Integers, Sequences, FiniteSets, TLC

\* ------------------------------------------------------------- constants

PanicMax == 5

DNSPOD == "DNSPod"
HE == "HE"
CLOUDFLARE == "Cloudflare"
ALIDNS == "AliDNS"
GOOGLE == "Google"
DUCK == "DuckDNS"
DREAMHOST == "Dreamhost"
NOIP == "NoIP"
IPV4 == "IPV4"
IPV6 == "IPV6"

\* ---------------------------------------------------------------- bounds

\* how often the address of the host changes in a run
MaxIPChanges == 1

\* the providers whose DomainLoop is modelled
Providers == {CLOUDFLARE, DNSPOD, HE, ALIDNS}

\* the values of "provider" in the configuration file: the names of the
\* switch statements, and names that no case of them has
ProviderNames ==
  {CLOUDFLARE, DNSPOD, DREAMHOST, HE, ALIDNS, GOOGLE, DUCK, NOIP, "", "dnspod"}

\* the values of a credential in the configuration file: absent, or given
Credentials == {"", "secret"}

\* what the echo service writes after the address in its answer
LineEnds == {"\n", "\r\n", " \n"}

\* the values of "ip_type" in the configuration file
IPTypes == {"", "IPV4", "ipv6"}

\* the values of configuration.Domains: one domain with two sub domains, two
\* domains with one sub domain each, and one domain with one sub domain (of
\* a zone that holds a further record)
DomainConfigs ==
  { << [DomainName |-> "example.com", SubDomains |-> <<"a", "b">>] >>,
    << [DomainName |-> "example.com", SubDomains |-> <<"a">>],
       [DomainName |-> "example.org", SubDomains |-> <<"c">>] >>,
    << [DomainName |-> "example.com", SubDomains |-> <<"a">>] >> }

\* the successive addresses of the host, per address family
HostAddr ==
  [v4 |-> <<"1.2.3.4", "5.6.7.8">>, v6 |-> <<"2001:db8::1", "2001:db8::2">>]

NoDomain == [DomainName |-> "", SubDomains |-> <<>>]

\* ----------------------------------------------------------- pure helpers

\* strings.ToUpper on the ip_type values
ToUpper(s) ==
  CASE s = "ipv4" -> "IPV4"
    [] s = "ipv6" -> "IPV6"
    [] OTHER -> s

\* fmt.Sprintf("%s.%s", subDomain, domain.DomainName)
Hostname(sub, name) == sub \o "." \o name

\* the family GetIPOnline asks for: IPUrl for "" and IPV4, else IPV6Url
OnlineFamily(ipType) ==
  IF ipType = "" \/ ToUpper(ipType) = IPV4 THEN "v4" ELSE "v6"

\* the addresses of the host, as text
Addresses == {HostAddr[f][i] : f \in {"v4", "v6"}, i \in 1..2}

\* strings.Trim(body, "\n") / strings.TrimRight(ip, "\n"): the bodies and
\* record values of the model are an address or nothing, then possibly a
\* carriage return or a space, then at most one newline; the newline is cut
\* and nothing else
TrimNL(s) ==
  LET kept == {p \o w : p \in Addresses \cup {""}, w \in {"", "\r", " "}}
  IN  IF \E c \in kept : s = c \o "\n"
        THEN CHOOSE c \in kept : s = c \o "\n"
        ELSE s

\* every record of the zone taken as tracked
recordTrackedAll(domain, record) == TRUE

\* recordTracked: the record's name is <sub>.<domain> of a configured sub
recordTracked(domain, record) ==
  \E i \in 1..Len(domain.SubDomains) :
     record.Name = Hostname(domain.SubDomains[i], domain.DomainName)

\* the names of the records the provider holds in a zone, in the order in
\* which it lists them
ZoneRecordNames(name) ==
  IF name = "example.com"
    THEN <<"b.example.com", "a.example.com">>
    ELSE <<"c.example.org">>

AllHosts == {"a.example.com", "b.example.com", "c.example.org"}


\* ------------------------------------------------------------------ state

VARIABLES
  provider,    \* configuration.Provider
  ipType,      \* configuration.IPType
  domains,     \* configuration.Domains
  influx,      \* configuration.Notify.Influx.Enabled
  email,       \* configuration.Email
  password,    \* configuration.Password
  loginToken,  \* configuration.LoginToken
  optHelp,     \* the flag -h
  loadErr,     \* LoadSettings returns an error
  lineEnd,     \* what the echo service writes after the address
  ipChanges,   \* how often the host's address has changed so far
  published,   \* the provider's record value of every host name
  loops,       \* the DomainLoop goroutines that have not ended
  panicCount,  \* dnsLoop's panicCount
  proc,        \* "starting" (in main), "running" (in dnsLoop's for) or "exited"
  exitCode,    \* the status of os.Exit, -1 while running
  faults,      \* history: the panics recovered by DomainLoop instances so far
  healthy      \* history: every call to a collaborator has succeeded so far

settings == <<provider, ipType, domains, influx, email, password, loginToken,
              optHelp, loadErr>>
world == <<ipChanges, published>>
supervisor == <<panicCount, proc, exitCode>>
vars == <<provider, ipType, domains, influx, email, password, loginToken, optHelp,
          loadErr, lineEnd, ipChanges, published, loops, panicCount, proc, exitCode,
          faults, healthy>>

\* the host's present address in a family
HostIP(family) == HostAddr[family][(ipChanges % 2) + 1]

\* configuration.IPUrl, IPV6Url, IPInterface: both echo services and the
\* interface are configured
IPUrl == "http://v4.myip.example"
IPV6Url == "http://v6.myip.example"
IPInterface == "eth0"

\* an entry of a goroutine's call history
Ev(kind, host, ip, ok) == [k |-> kind, h |-> host, ip |-> ip, ok |-> ok]

\* the locals of a DomainLoop goroutine at its first statement
\* (looping := false, var lastIP string), with the history of its iteration
NewLoop(domain) ==
  [ st       |-> "run",      \* "run", or "send": blocked in panicChan <- *domain
    domain   |-> domain,
    msg      |-> NoDomain,   \* the value being sent on panicChan
    pc       |-> "top",      \* "top": at the head of for; "subs": in the range loop
    looping  |-> FALSE,
    lastIP   |-> "",         \* Cloudflare's lastIP
    cur      |-> "",         \* currentIP
    idx      |-> 0,          \* position of the range loop
    recs     |-> <<>>,       \* Cloudflare's records
    domainID |-> 0,          \* DNSPod's domainID
    ipFailed |-> FALSE,      \* history: no source gave an address this iteration
    failed   |-> {},         \* history: the hosts whose update failed this iteration
    calls    |-> <<>> ]      \* history: the calls of the last step

\* ---------------------------------------------------------------- startup

\* the nil error
Nil == "<nil>"

\* the nil IHandler
NilHandler == "<nil>"

\* CheckSettings: the error it returns for the provider and its credentials
CheckSettings(prov, mail, pass, token) ==
  CASE prov = DNSPOD ->
         IF pass = "" /\ token = ""
           THEN "password or login token cannot be empty" ELSE Nil
    [] prov = HE ->
         IF pass = "" THEN "password cannot be empty" ELSE Nil
    [] prov = CLOUDFLARE ->
         IF token = ""
           THEN IF mail = "" THEN "email cannot be empty"
                ELSE IF pass = "" THEN "password cannot be empty" ELSE Nil
           ELSE Nil
    [] prov = ALIDNS ->
         IF mail = "" THEN "email cannot be empty"
         ELSE IF pass = "" THEN "password cannot be empty" ELSE Nil
    [] prov = DUCK ->
         IF token = "" THEN "login token cannot be empty" ELSE Nil
    [] prov \in {GOOGLE, NOIP} ->
         IF mail = "" THEN "email cannot be empty"
         ELSE IF pass = "" THEN "password cannot be empty" ELSE Nil
    [] prov = DREAMHOST ->
         IF token = "" THEN "login token cannot be empty" ELSE Nil
    [] OTHER -> "please provide supported DNS provider"

\* the switch without the case of NoIP
CreateHandlerSeven(prov) ==
  CASE prov = CLOUDFLARE -> "cloudflare.Handler"
    [] prov = DNSPOD -> "dnspod.Handler"
    [] prov = DREAMHOST -> "dreamhost.Handler"
    [] prov = HE -> "he.Handler"
    [] prov = ALIDNS -> "alidns.Handler"
    [] prov = GOOGLE -> "google.Handler"
    [] prov = DUCK -> "duck.Handler"
    [] OTHER -> NilHandler

\* CreateHandler: the handler of the provider, the nil interface for a name
\* that no case has
CreateHandler(prov) ==
  CASE prov = CLOUDFLARE -> "cloudflare.Handler"
    [] prov = DNSPOD -> "dnspod.Handler"
    [] prov = DREAMHOST -> "dreamhost.Handler"
    [] prov = HE -> "he.Handler"
    [] prov = ALIDNS -> "alidns.Handler"
    [] prov = GOOGLE -> "google.Handler"
    [] prov = DUCK -> "duck.Handler"
    [] prov = NOIP -> "noip.Handler"
    [] OTHER -> NilHandler

\* an error that is never seen
FailedNever(err) == FALSE

\* if err := ...; err != nil
Failed(err) == err # Nil

\* the settings examined: for the domain with two sub domains every
\* provider and ip_type, with and without the InfluxDB sink; under IPV4
\* without the sink, two domains for the loops that range over the sub
\* domains (HE, AliDNS) and the domain with one sub domain for the loop that
\* ranges over the records of the zone (Cloudflare)
Configurations ==
  {c \in Providers \X IPTypes \X DomainConfigs \X BOOLEAN :
     \/ Len(c[3]) = 1 /\ Len(c[3][1].SubDomains) = 2
     \/ /\ c[2] = "IPV4" /\ ~c[4]
        /\ \/ Len(c[3]) = 2 /\ c[1] \in {HE, ALIDNS}
           \/ Len(c[3]) = 1 /\ Len(c[3][1].SubDomains) = 1 /\ c[1] = CLOUDFLARE}

\* the state when dnsLoop reaches its for: main has loaded and accepted the
\* settings, and one goroutine per configured domain has been started
Init ==
  /\ \E c \in Configurations :
       provider = c[1] /\ ipType = c[2] /\ domains = c[3] /\ influx = c[4]
  /\ email = "secret" /\ password = "secret" /\ loginToken = "secret"
  /\ optHelp = FALSE
  /\ loadErr = FALSE
  /\ lineEnd = "\n"
  /\ ipChanges = 0
  /\ published = [h \in AllHosts |-> HostAddr[OnlineFamily(ipType)][1]]
  /\ loops = [d \in 1..Len(domains) |-> NewLoop(domains[d])]
  /\ panicCount = 0
  /\ proc = "running"
  /\ exitCode = -1
  /\ faults = 0
  /\ healthy = TRUE

\* -------------------------------------------------------- current address

\* GetIPOnline: the body of the echo service's answer, trimmed; an error when
\* the request fails
GetIPOnline(t, answered) ==
  IF answered
    THEN [ip |-> TrimNL(HostIP(OnlineFamily(t)) \o lineEnd), err |-> FALSE]
    ELSE [ip |-> "", err |-> TRUE]

\* GetIPFromInterface: the first global address of the interface whose family
\* is the configured one.  The interface carries one IPv4 and one IPv6
\* address; an IPv4 address is taken only under IPV4, an IPv6 one only
\* under IPV6.
GetIPFromInterface(t, found) ==
  IF ~found THEN [ip |-> "", err |-> TRUE]
  ELSE IF ToUpper(t) = IPV4 THEN [ip |-> HostIP("v4"), err |-> FALSE]
  ELSE IF ToUpper(t) = IPV6 THEN [ip |-> HostIP("v6"), err |-> FALSE]
  ELSE [ip |-> "", err |-> TRUE]

\* GetCurrentIP: online first, then the interface.  The err of each branch
\* is a new variable of that branch, so the final "return "", err" returns
\* the outer err, which is never assigned.
GetCurrentIP(t, answered, found) ==
  LET online == GetIPOnline(t, answered)
      iface == GetIPFromInterface(t, found)
  IN  IF (IPUrl # "" \/ IPV6Url # "") /\ ~online.err
        THEN [ip |-> online.ip, err |-> FALSE]
      ELSE IF IPInterface # "" /\ ~iface.err
        THEN [ip |-> iface.ip, err |-> FALSE]
      ELSE [ip |-> "", err |-> FALSE]

\* whether some source really gave an address (for the history only)
Discovered(t, answered, found) ==
  ~GetIPOnline(t, answered).err \/ ~GetIPFromInterface(t, found).err

\* ---------------------------------------------------------- notification

\* strings.Split(currentIP, "."): the fields of the addresses of the model;
\* an IPv6 address and "" hold no "." and are one field
SplitDot(ip) ==
  CASE ip = "1.2.3.4" -> <<"1", "2", "3", "4">>
    [] ip = "5.6.7.8" -> <<"5", "6", "7", "8">>
    [] OTHER -> <<ip>>

\* SaveToInfluxDB: nothing when the sink is off; else it reads s[0] .. s[3]
\* of the split address, which panics (index out of range) on fewer than
\* four fields; it returns nil otherwise
SaveToInfluxDB(enabled, currentIP) ==
  IF ~enabled THEN "nil"
  ELSE IF Len(SplitDot(currentIP)) < 4 THEN "panic"
  ELSE "nil"

\* SendNotify: the errors of the Telegram, mail and Slack sinks are logged;
\* it returns nil unless SaveToInfluxDB panics
SendNotify(enabled, currentIP) == SaveToInfluxDB(enabled, currentIP)

\* ------------------------------------------------------- steps of a loop

\* the deferred function sending an empty Domain instead of its own
RecoveredEmpty(l) == [l EXCEPT !.st = "send", !.msg = NoDomain]

\* the deferred function of DomainLoop: recover() and panicChan <- *domain.
\* The channel has no buffer: the goroutine stays in the send until dnsLoop
\* receives.
Recovered(l) == [l EXCEPT !.st = "send", !.msg = l.domain]

\* the sleep taken in every iteration, the first included
SleepAlways(looping) == <<Ev("sleep", "", "", TRUE)>>

\* if looping { time.Sleep(Interval) }: the calls of time.Sleep at the head
\* of the for statement
Sleep(looping) == IF looping THEN <<Ev("sleep", "", "", TRUE)>> ELSE <<>>

\* the head of the for statement: sleep unless first, looping = true
EnterIteration(l) ==
  [l EXCEPT !.calls = Sleep(l.looping),
            !.looping = TRUE, !.ipFailed = FALSE, !.cur = "", !.failed = {}]

\* currentIP, err := godns.GetCurrentIP(handler.Configuration)
WithCurrentIP(l, t, answered, found) ==
  [l EXCEPT !.cur = GetCurrentIP(t, answered, found).ip,
            !.ipFailed = ~Discovered(t, answered, found)]

Logged(l, e) == [l EXCEPT !.calls = Append(l.calls, e)]

\* a pass returning from DomainLoop (return for continue)
AdvanceReturn(l, n) == [l EXCEPT !.st = "returned"]

\* a pass ending the range loop (break for continue)
AdvanceBreak(l, n) ==
  [l EXCEPT !.pc = "top", !.idx = 0, !.recs = <<>>, !.domainID = 0]

\* the end of one pass of a range loop over n elements
Advance(l, n) ==
  IF l.idx < n
    THEN [l EXCEPT !.idx = l.idx + 1]
    ELSE [l EXCEPT !.pc = "top", !.idx = 0, !.recs = <<>>, !.domainID = 0]

\* the start of a range loop over n elements
EnterRange(l, n) ==
  IF n = 0 THEN [l EXCEPT !.pc = "top", !.idx = 0, !.recs = <<>>, !.domainID = 0]
  ELSE [l EXCEPT !.pc = "subs", !.idx = 1]

\* ResolveDNS returning "<nil>" without the error
ResolveDNSSwallowed(pub, host, resolved) ==
  [ip |-> IF resolved THEN pub[host] ELSE "<nil>", err |-> FALSE]

\* ResolveDNS(hostname, resolver, ipType): the address the name resolves to,
\* which is the record the provider publishes; "<nil>" with an error
ResolveDNS(pub, host, resolved) ==
  IF resolved THEN [ip |-> pub[host], err |-> FALSE]
  ELSE [ip |-> "<nil>", err |-> TRUE]

\* the comparison left out: every pass updates
UnchangedNever(currentIP, lastIP) == FALSE

\* if currentIP == lastIP: the comparison of the he, dnspod and alidns loops
\* that skips the update
Unchanged(currentIP, lastIP) == currentIP = lastIP

\* a pass of a range loop starts: its calls are the history from here on
Pass(l) == [l EXCEPT !.calls = <<>>]

\* ----------------------------------------------------------------- he

\* he.Handler.UpdateIP: posts the address; the outcome is only logged
HEUpdateIP(pub, host, ip, accepted) ==
  IF accepted THEN [pub EXCEPT ![host] = ip] ELSE pub

\* he.Handler.DomainLoop, from the head of for to the range statement
HEHead(l, pub, answered, found, fault) ==
  LET l0 == EnterIteration(l)
      got == GetCurrentIP(ipType, answered, found)
      l1 == WithCurrentIP(l0, ipType, answered, found)
  IN  IF fault = "getip" THEN [l |-> Recovered(l0), pub |-> pub]
      ELSE IF got.err THEN [l |-> l1, pub |-> pub]
      ELSE [l |-> EnterRange(l1, Len(l.domain.SubDomains)), pub |-> pub]

\* he.Handler.DomainLoop, one pass of the range over domain.SubDomains
HESub(l, pub, resolved, accepted, fault) ==
  LET n == Len(l.domain.SubDomains)
      host == Hostname(l.domain.SubDomains[l.idx], l.domain.DomainName)
      last == ResolveDNS(pub, host, resolved)
      l1 == Logged(Pass(l), Ev("resolve", host, last.ip, resolved))
      l2 == Logged(l1, Ev("update", host, l.cur, accepted))
      pub2 == HEUpdateIP(pub, host, l.cur, accepted)
      l3 == Logged(l2, Ev("notify", host, l.cur, TRUE))
  IN  IF fault = "resolve" THEN [l |-> Recovered(Pass(l)), pub |-> pub]
      ELSE IF last.err THEN [l |-> Advance(l1, n), pub |-> pub]
      ELSE IF Unchanged(l.cur, last.ip) THEN [l |-> Advance(l1, n), pub |-> pub]
      ELSE IF fault = "update" THEN [l |-> Recovered(l1), pub |-> pub]
      ELSE IF SendNotify(influx, l.cur) = "panic"
        THEN [l |-> Recovered(Logged(l2, Ev("notify", host, l.cur, FALSE))),
              pub |-> pub2]
      ELSE [l |-> Advance(l3, n), pub |-> pub2]

\* ---------------------------------------------------------- cloudflare

\* cloudflare.Handler.getDNSRecords: the records of the zone, none on failure
getDNSRecords(pub, name, listed) ==
  IF listed
    THEN [i \in 1..Len(ZoneRecordNames(name)) |->
            [Name |-> ZoneRecordNames(name)[i], IP |-> pub[ZoneRecordNames(name)[i]]]]
    ELSE <<>>

\* cloudflare.Handler.updateRecord: the new address when the provider reports
\* success, "" otherwise
updateRecord(record, newIP, accepted) ==
  IF accepted THEN newIP ELSE ""

\* cloudflare.Handler.DomainLoop, from the head of for to the range statement
CFHead(l, pub, answered, found, zoneFound, listed, fault) ==
  LET l0 == EnterIteration(l)
      got == GetCurrentIP(ipType, answered, found)
      l1 == WithCurrentIP(l0, ipType, answered, found)
      l2 == Logged(l1, Ev("getZone", l.domain.DomainName, "", zoneFound))
      records == getDNSRecords(pub, l.domain.DomainName, listed)
      l3 == [Logged(l2, Ev("getDNSRecords", l.domain.DomainName, "", listed))
               EXCEPT !.recs = records]
  IN  IF fault = "getip" THEN [l |-> Recovered(l0), pub |-> pub]
      ELSE IF got.err THEN [l |-> l1, pub |-> pub]
      ELSE IF got.ip = l.lastIP THEN [l |-> l1, pub |-> pub]
      ELSE IF fault = "getZone" THEN [l |-> Recovered(l1), pub |-> pub]
      ELSE IF ~zoneFound THEN [l |-> l2, pub |-> pub]
      ELSE IF fault = "getDNSRecords" THEN [l |-> Recovered(l2), pub |-> pub]
      ELSE [l |-> EnterRange(l3, Len(records)), pub |-> pub]

\* cloudflare.Handler.DomainLoop, one pass of the range over records
CFRecord(l, pub, accepted, fault) ==
  LET n == Len(l.recs)
      rec == l.recs[l.idx]
      l0 == Pass(l)
      l1 == Logged([l0 EXCEPT !.lastIP = updateRecord(rec, l.cur, accepted)],
                   Ev("update", rec.Name, l.cur, accepted))
      pub1 == IF accepted THEN [pub EXCEPT ![rec.Name] = l.cur] ELSE pub
      l2 == Logged(l1, Ev("notify", rec.Name, l.cur, TRUE))
  IN  IF ~recordTracked(l.domain, rec) THEN [l |-> Advance(l0, n), pub |-> pub]
      ELSE IF rec.IP = l.cur THEN [l |-> Advance(l0, n), pub |-> pub]
      ELSE IF fault = "update" THEN [l |-> Recovered(l0), pub |-> pub]
      ELSE IF SendNotify(influx, l.cur) = "panic"
        THEN [l |-> Recovered(Logged(l1, Ev("notify", rec.Name, l.cur, FALSE))),
              pub |-> pub1]
      ELSE [l |-> Advance(l2, n), pub |-> pub1]

\* -------------------------------------------------------------- dnspod

\* dnspod.Handler.GetDomain: -1 when the request or its parsing fails, the id
\* of the domain when the list names it, 0 (ret's zero value) when it does not
GetDomain(answer) ==
  CASE answer = "error" -> -1
    [] answer = "found" -> 1
    [] OTHER -> 0

\* dnspod.Handler.GetSubDomain asks the provider unless ip_type is unknown
GetSubDomainAsks(t) == t = "" \/ ToUpper(t) = IPV4 \/ ToUpper(t) = IPV6

\* dnspod.Handler.GetSubDomain: id and value of the record, "" and "" when the
\* request fails or lists no record of that name
GetSubDomain(pub, t, domainID, host, listed) ==
  IF GetSubDomainAsks(t) /\ listed /\ domainID > 0
    THEN [id |-> "id-" \o host, ip |-> pub[host]]
    ELSE [id |-> "", ip |-> ""]

\* dnspod.Handler.UpdateIP sends Record.Modify only under IPV4 or IPV6
UpdateIPAsks(t) == ToUpper(t) = IPV4 \/ ToUpper(t) = IPV6

\* dnspod.Handler.UpdateIP: the outcome is only logged
UpdateIP(pub, t, host, ip, accepted) ==
  IF UpdateIPAsks(t) /\ accepted THEN [pub EXCEPT ![host] = ip] ELSE pub

\* dnspod.Handler.DomainLoop, from the head of for to the range statement
DNSPodHead(l, pub, answer, answered, found, fault) ==
  LET l0 == EnterIteration(l)
      l1 == Logged([l0 EXCEPT !.domainID = GetDomain(answer)],
                   Ev("getDomain", l.domain.DomainName, "", answer = "found"))
      got == GetCurrentIP(ipType, answered, found)
      l2 == WithCurrentIP(l1, ipType, answered, found)
  IN  IF fault = "getDomain" THEN [l |-> Recovered(l0), pub |-> pub]
      ELSE IF GetDomain(answer) = -1
        THEN [l |-> [l1 EXCEPT !.domainID = 0], pub |-> pub]
      ELSE IF fault = "getip" THEN [l |-> Recovered(l1), pub |-> pub]
      ELSE IF got.err THEN [l |-> l2, pub |-> pub]
      ELSE [l |-> EnterRange(l2, Len(l.domain.SubDomains)), pub |-> pub]

\* dnspod.Handler.DomainLoop, one pass of the range over domain.SubDomains
DNSPodSub(l, pub, resolved, listed, accepted, fault) ==
  LET n == Len(l.domain.SubDomains)
      host == Hostname(l.domain.SubDomains[l.idx], l.domain.DomainName)
      last == ResolveDNS(pub, host, resolved)
      l1 == Logged(Pass(l), Ev("resolve", host, last.ip, resolved))
      sub == GetSubDomain(pub, ipType, l.domainID, host, listed)
      l2 == IF GetSubDomainAsks(ipType)
              THEN Logged(l1, Ev("getSubDomain", host, "", sub.id # ""))
              ELSE l1
      l3 == IF UpdateIPAsks(ipType)
              THEN Logged(l2, Ev("update", host, l.cur, accepted))
              ELSE l2
      pub3 == UpdateIP(pub, ipType, host, l.cur, accepted)
      l4 == Logged(l3, Ev("notify", host, l.cur, TRUE))
  IN  IF fault = "resolve" THEN [l |-> Recovered(Pass(l)), pub |-> pub]
      ELSE IF last.err THEN [l |-> Advance(l1, n), pub |-> pub]
      ELSE IF Unchanged(l.cur, last.ip) THEN [l |-> Advance(l1, n), pub |-> pub]
      ELSE IF fault = "getSubDomain" THEN [l |-> Recovered(l1), pub |-> pub]
      ELSE IF sub.id = "" \/ sub.ip = "" THEN [l |-> Advance(l2, n), pub |-> pub]
      ELSE IF ~(sub.ip # "" /\ TrimNL(l.cur) # TrimNL(sub.ip))
        THEN [l |-> Advance(l2, n), pub |-> pub]
      ELSE IF fault = "update" THEN [l |-> Recovered(l2), pub |-> pub]
      ELSE IF SendNotify(influx, l.cur) = "panic"
        THEN [l |-> Recovered(Logged(l3, Ev("notify", host, l.cur, FALSE))),
              pub |-> pub3]
      ELSE [l |-> Advance(l4, n), pub |-> pub3]

\* -------------------------------------------------------------- alidns

\* the check for an empty listing left out
NoRecordsIgnored(listed) == FALSE

\* if records == nil || len(records) == 0, where listed says whether
\* GetDomainRecords returned a record of the sub domain
NoRecords(listed) == ~listed

\* alidns.Handler.DomainLoop, from the head of for to the range statement
AliHead(l, pub, answered, found, fault) ==
  LET l0 == EnterIteration(l)
      got == GetCurrentIP(ipType, answered, found)
      l1 == WithCurrentIP(l0, ipType, answered, found)
  IN  IF fault = "getip" THEN [l |-> Recovered(l0), pub |-> pub]
      ELSE IF got.err THEN [l |-> l1, pub |-> pub]
      ELSE [l |-> EnterRange(l1, Len(l.domain.SubDomains)), pub |-> pub]

\* alidns.Handler.DomainLoop, one pass of the range over domain.SubDomains:
\* listed says whether GetDomainRecords returns a record, accepted whether
\* UpdateDomainRecord returns nil
AliSub(l, pub, resolved, listed, accepted, fault) ==
  LET n == Len(l.domain.SubDomains)
      host == Hostname(l.domain.SubDomains[l.idx], l.domain.DomainName)
      last == ResolveDNS(pub, host, resolved)
      l1 == Logged(Pass(l), Ev("resolve", host, last.ip, resolved))
      l2 == Logged(l1, Ev("getDomainRecords", host, "", listed))
      l3 == Logged(l2, Ev("update", host, l.cur, accepted))
      pub3 == IF accepted THEN [pub EXCEPT ![host] = l.cur] ELSE pub
      l4 == Logged(l3, Ev("notify", host, l.cur, TRUE))
  IN  IF fault = "resolve" THEN [l |-> Recovered(Pass(l)), pub |-> pub]
      ELSE IF last.err THEN [l |-> Advance(l1, n), pub |-> pub]
      ELSE IF Unchanged(l.cur, last.ip) THEN [l |-> Advance(l1, n), pub |-> pub]
      ELSE IF fault = "getDomainRecords" THEN [l |-> Recovered(l1), pub |-> pub]
      ELSE IF NoRecords(listed) THEN [l |-> Advance(l2, n), pub |-> pub]
      ELSE IF fault = "update" THEN [l |-> Recovered(l2), pub |-> pub]
      ELSE IF ~accepted THEN [l |-> Advance(l3, n), pub |-> pub3]
      ELSE IF SendNotify(influx, l.cur) = "panic"
        THEN [l |-> Recovered(Logged(l3, Ev("notify", host, l.cur, FALSE))),
              pub |-> pub3]
      ELSE [l |-> Advance(l4, n), pub |-> pub3]

\* ------------------------------------------------------------- actions

GetDomainAnswers == {"error", "found", "absent"}

\* the answers of a provider to the update of a record with an address: it
\* stores nothing but an address
Accepts(ip) == IF ip \in Addresses THEN BOOLEAN ELSE {FALSE}

\* a goroutine that runs only while no goroutine is reporting a failure
RunningAll(k) ==
  /\ proc = "running"
  /\ k \in DOMAIN loops
  /\ \A j \in DOMAIN loops : loops[j].st = "run"

\* goroutine k is executing its loop: it is stopped by nothing but its own
\* panic and the exit of the process
Running(k) ==
  /\ proc = "running"
  /\ k \in DOMAIN loops
  /\ loops[k].st = "run"

\* the history of the iteration after a step
Settled(l) ==
  [l EXCEPT !.failed = l.failed \cup
                       {l.calls[i].h : i \in {j \in 1..Len(l.calls) :
                                                l.calls[j].k = "update" /\ ~l.calls[j].ok}}]

\* goroutine k takes the step with result r; a step that names the call at
\* which it panics must reach that call
Take(k, r, fault) ==
  /\ fault # "none" => r.l.st = "send"
  /\ loops' = [loops EXCEPT ![k] = Settled(r.l)]
  /\ published' = r.pub
  /\ faults' = IF r.l.st = "send" THEN faults + 1 ELSE faults
  /\ healthy' = (/\ healthy
                 /\ ~r.l.ipFailed
                 /\ \A i \in 1..Len(r.l.calls) : r.l.calls[i].ok)
  /\ UNCHANGED <<settings, lineEnd, ipChanges, supervisor>>

HEIterate(k) ==
  /\ Running(k) /\ provider = HE /\ loops[k].pc = "top"
  /\ \E answered, found \in BOOLEAN, fault \in {"none", "getip"} :
       Take(k, HEHead(loops[k], published, answered, found, fault), fault)

HESubDomain(k) ==
  /\ Running(k) /\ provider = HE /\ loops[k].pc = "subs"
  /\ \E resolved \in BOOLEAN, accepted \in Accepts(loops[k].cur),
        fault \in {"none", "resolve", "update"} :
       Take(k, HESub(loops[k], published, resolved, accepted, fault), fault)

CFIterate(k) ==
  /\ Running(k) /\ provider = CLOUDFLARE /\ loops[k].pc = "top"
  /\ \E answered, found, zoneFound, listed \in BOOLEAN,
        fault \in {"none", "getip", "getZone", "getDNSRecords"} :
       Take(k, CFHead(loops[k], published, answered, found, zoneFound, listed, fault),
            fault)

CFRecordStep(k) ==
  /\ Running(k) /\ provider = CLOUDFLARE /\ loops[k].pc = "subs"
  /\ \E accepted \in Accepts(loops[k].cur), fault \in {"none", "update"} :
       Take(k, CFRecord(loops[k], published, accepted, fault), fault)

DNSPodIterate(k) ==
  /\ Running(k) /\ provider = DNSPOD /\ loops[k].pc = "top"
  /\ \E answer \in GetDomainAnswers, answered, found \in BOOLEAN,
        fault \in {"none", "getDomain", "getip"} :
       Take(k, DNSPodHead(loops[k], published, answer, answered, found, fault), fault)

DNSPodSubDomain(k) ==
  /\ Running(k) /\ provider = DNSPOD /\ loops[k].pc = "subs"
  /\ \E resolved, listed \in BOOLEAN, accepted \in Accepts(loops[k].cur),
        fault \in {"none", "resolve", "getSubDomain", "update"} :
       Take(k, DNSPodSub(loops[k], published, resolved, listed, accepted, fault),
            fault)

AliIterate(k) ==
  /\ Running(k) /\ provider = ALIDNS /\ loops[k].pc = "top"
  /\ \E answered, found \in BOOLEAN, fault \in {"none", "getip"} :
       Take(k, AliHead(loops[k], published, answered, found, fault), fault)

AliSubDomain(k) ==
  /\ Running(k) /\ provider = ALIDNS /\ loops[k].pc = "subs"
  /\ \E resolved, listed \in BOOLEAN, accepted \in Accepts(loops[k].cur),
        fault \in {"none", "resolve", "getDomainRecords", "update"} :
       Take(k, AliSub(loops[k], published, resolved, listed, accepted, fault), fault)

\* the restart taking the first configured domain instead of the reported one
RestartFirst(ls, k, failDomain) == [ls EXCEPT ![k] = NewLoop(ls[1].domain)]

\* the restart letting the failed goroutine go on with the locals it has
RestartResumed(ls, k, failDomain) ==
  [ls EXCEPT ![k] = [ls[k] EXCEPT !.st = "run", !.msg = NoDomain]]

\* one receive taking the reports of all the goroutines that are sending
RestartAll(ls, k, failDomain) ==
  [j \in DOMAIN ls |-> IF ls[j].st = "send" THEN NewLoop(ls[j].msg) ELSE ls[j]]

\* the restart starting two goroutines for the report
RestartTwice(ls, k, failDomain) ==
  Append([ls EXCEPT ![k] = NewLoop(failDomain)], NewLoop(failDomain))

\* dnsLoop's go h.DomainLoop(&failDomain, panicChan): the sender's deferred
\* function returns, which ends goroutine k, and a new goroutine starts
Restart(ls, k, failDomain) == [ls EXCEPT ![k] = NewLoop(failDomain)]

\* the increment left out
Uncounted(n) == n

\* panicCount++
Counted(n) == n + 1

\* the comparison with > for >=
TrippedPast(n) == n > PanicMax

\* if panicCount >= godns.PanicMax { os.Exit(1) }
Tripped(n) == n >= PanicMax

\* one pass of dnsLoop's for: receive, restart, count, exit at PanicMax
dnsLoop(k) ==
  /\ proc = "running"
  /\ k \in DOMAIN loops
  /\ loops[k].st = "send"
  /\ LET failDomain == loops[k].msg
     IN  loops' = Restart(loops, k, failDomain)
  /\ panicCount' = Counted(panicCount)
  /\ IF Tripped(Counted(panicCount))
       THEN proc' = "exited" /\ exitCode' = 1
       ELSE UNCHANGED <<proc, exitCode>>
  /\ UNCHANGED <<settings, lineEnd, world, faults, healthy>>

\* the host gets another address
HostIPChange ==
  /\ proc = "running"
  /\ ipChanges < MaxIPChanges
  /\ ipChanges' = ipChanges + 1
  /\ UNCHANGED <<settings, lineEnd, published, loops, supervisor, faults, healthy>>

Next ==
  \/ \E k \in DOMAIN loops : HEIterate(k)
  \/ \E k \in DOMAIN loops : HESubDomain(k)
  \/ \E k \in DOMAIN loops : CFIterate(k)
  \/ \E k \in DOMAIN loops : CFRecordStep(k)
  \/ \E k \in DOMAIN loops : DNSPodIterate(k)
  \/ \E k \in DOMAIN loops : DNSPodSubDomain(k)
  \/ \E k \in DOMAIN loops : AliIterate(k)
  \/ \E k \in DOMAIN loops : AliSubDomain(k)
  \/ \E k \in DOMAIN loops : dnsLoop(k)
  \/ HostIPChange

Spec == Init /\ [][Next]_vars

\* dnsLoop's goroutine does nothing but receive, restart and count: blocked in
\* failDomain := <-panicChan, it is woken by the runtime as soon as a sender
\* waits, so a receive that stays possible is taken
FairSpec == Spec /\ WF_vars(\E k \in DOMAIN loops : dnsLoop(k))

\* the process before main: any provider name, any credentials, any outcome
\* of loading the file, with or without -h; one domain with two sub domains
StartInit ==
  /\ provider \in ProviderNames
  /\ ipType = "IPV4"
  /\ domains = << [DomainName |-> "example.com", SubDomains |-> <<"a", "b">>] >>
  /\ influx = FALSE
  /\ email \in Credentials /\ password \in Credentials /\ loginToken \in Credentials
  /\ optHelp \in BOOLEAN
  /\ loadErr \in BOOLEAN
  /\ lineEnd = "\n"
  /\ ipChanges = 0
  /\ published = [h \in AllHosts |-> HostAddr[OnlineFamily(ipType)][1]]
  /\ loops = <<>>
  /\ panicCount = 0
  /\ proc = "starting"
  /\ exitCode = -1
  /\ faults = 0
  /\ healthy = TRUE

\* main, and dnsLoop as far as its for: -h prints the usage and returns; an
\* error of LoadSettings or of CheckSettings exits with 1; otherwise the
\* handler is created and one goroutine per domain is started.  A call of
\* SetConfiguration on the nil interface is a panic of the main goroutine,
\* which ends the process with status 2.
main ==
  /\ proc = "starting"
  /\ IF optHelp
       THEN proc' = "exited" /\ exitCode' = 0 /\ loops' = loops
     ELSE IF \/ Failed(IF loadErr THEN "LoadSettings" ELSE Nil)
             \/ Failed(CheckSettings(provider, email, password, loginToken))
       THEN proc' = "exited" /\ exitCode' = 1 /\ loops' = loops
     ELSE IF CreateHandler(provider) = NilHandler
       THEN proc' = "exited" /\ exitCode' = 2 /\ loops' = loops
     ELSE /\ loops' = [d \in 1..Len(domains) |-> NewLoop(domains[d])]
          /\ proc' = "running"
          /\ exitCode' = exitCode
  /\ UNCHANGED <<settings, lineEnd, world, panicCount, faults, healthy>>

StartNext == main \/ Next

\* the process from its start
StartSpec == StartInit /\ [][StartNext]_vars

\* the process in dnsLoop's for, with an echo service that ends its answer
\* with a newline, with carriage return and newline, or with a space and a
\* newline: every provider, one domain with two sub domains
EchoInit ==
  /\ provider \in Providers
  /\ ipType = "IPV4"
  /\ domains = << [DomainName |-> "example.com", SubDomains |-> <<"a", "b">>] >>
  /\ influx = FALSE
  /\ email = "secret" /\ password = "secret" /\ loginToken = "secret"
  /\ optHelp = FALSE
  /\ loadErr = FALSE
  /\ lineEnd \in LineEnds
  /\ ipChanges = 0
  /\ published = [h \in AllHosts |-> HostAddr[OnlineFamily(ipType)][1]]
  /\ loops = [d \in 1..Len(domains) |-> NewLoop(domains[d])]
  /\ panicCount = 0
  /\ proc = "running"
  /\ exitCode = -1
  /\ faults = 0
  /\ healthy = TRUE

\* the loops with the answers of such an echo service
EchoSpec == EchoInit /\ [][Next]_vars

\* ----------------------------------------------------------- properties

\* the calls to the Provider Client
ProviderCalls ==
  {"getDomain", "getSubDomain", "getZone", "getDNSRecords", "getDomainRecords",
   "update"}

CallsOf(l, kinds) == {i \in 1..Len(l.calls) : l.calls[i].k \in kinds}

\* the goroutines blocked in the send of their failure report
Sending == {k \in DOMAIN loops : loops[k].st = "send"}

\* the failure reports dnsLoop has received: every recovered panic makes one
\* report, which is either still being sent or has been received
Received == faults - Cardinality(Sending)

\* the replacement loops dnsLoop has started: the goroutines started (those
\* that have not ended and one ended goroutine per report received) less the
\* configured ones
Replacements == Len(loops) + Received - Len(domains)

\* the goroutines of a domain
LoopsOf(domain) == {k \in DOMAIN loops : loops[k].domain = domain}

\* C1: with N < PanicMax failure reports received the process runs and N
\* replacement loops have been started (the goroutines started are the
\* configured ones and N more, N of which have ended); with the PanicMax-th
\* report the process has exited with status 1; it exits in no other case.
C1_CrashBudget ==
  /\ Received <= PanicMax
  /\ Received < PanicMax =>
       /\ proc = "running" /\ exitCode = -1
       /\ Replacements = Received
  /\ Received = PanicMax => proc = "exited" /\ exitCode = 1
  /\ proc = "exited" => Received = PanicMax /\ exitCode = 1

\* C1 witness: the budget is used up by faults of two domains' loops while a
\* further loop waits to report
C1_Witness ==
  /\ proc = "exited" /\ exitCode = 1
  /\ Len(domains) = 2
  /\ Sending # {}

\* the goroutines of a domain that are executing the loop
ActiveOf(domain) == {k \in LoopsOf(domain) : loops[k].st = "run"}

\* C2 as stated: while the process runs every configured domain has exactly
\* one active loop, also between a loop's fault and its replacement.
C2_Original ==
  proc = "running" =>
    \A d \in 1..Len(domains) : Cardinality(ActiveOf(domains[d])) = 1

\* C2 amended: while the process runs every configured domain has exactly one
\* loop goroutine, which is active or is blocked handing its failure report
\* to dnsLoop; so a domain never has two active loops, and has none only
\* from a loop's fault until dnsLoop has received its report.
C2_OneLoopPerDomain ==
  proc = "running" =>
    \A d \in 1..Len(domains) :
       /\ Cardinality(LoopsOf(domains[d])) = 1
       /\ Cardinality(ActiveOf(domains[d])) <= 1
       /\ Cardinality(ActiveOf(domains[d])) = 0 =>
            \E k \in LoopsOf(domains[d]) : k \in Sending

\* C2 witness: after a restart, one domain's loop has faulted and waits for
\* dnsLoop while the other domain's loop is active
C2_Witness ==
  /\ proc = "running"
  /\ panicCount >= 1
  /\ Len(domains) = 2
  /\ \E d \in 1..2 : ActiveOf(domains[d]) = {} /\ ActiveOf(domains[3 - d]) # {}

\* C3: a panic in a DomainLoop goroutine is recovered: the goroutine goes
\* into the send of its own Domain and of nothing else, every recovered
\* panic makes exactly one report (being sent or received), and a goroutine
\* that has panicked takes no further step of its loop: it stays as it is
\* until dnsLoop receives its report, which ends it.
C3_FaultReported ==
  /\ [](\A k \in DOMAIN loops :
          /\ loops[k].st = "send" => loops[k].msg = loops[k].domain
          /\ loops[k].st = "run" => loops[k].msg = NoDomain)
  /\ [](faults = panicCount + Cardinality(Sending))
  /\ [][\A k \in DOMAIN loops :
          /\ loops[k].st = "send" =>
               \/ loops'[k] = loops[k] /\ panicCount' = panicCount
               \/ panicCount' = panicCount + 1
          /\ (loops[k].st = "run" /\ loops'[k].st = "send") =>
               /\ faults' = faults + 1
               /\ loops'[k].msg = loops[k].domain
               /\ panicCount' = panicCount]_vars

\* C3 witness: a goroutine that panicked in SendNotify, after its update
\* call, is blocked in the send of its Domain
C3_Witness ==
  \E k \in DOMAIN loops :
     /\ loops[k].st = "send"
     /\ loops[k].msg = loops[k].domain
     /\ CallsOf(loops[k], {"update"}) # {}
     /\ loops[k].calls[Len(loops[k].calls)].k = "notify"

\* C4: each failure report received starts exactly one new loop: the
\* goroutine that sent the report ends, the others are untouched, and the
\* new goroutine has the reported domain name and sub domain list and the
\* initial locals (looping false, lastIP empty, at the head of for).
C4_FreshRestart ==
  [][panicCount' # panicCount =>
       \E k \in DOMAIN loops :
          /\ loops[k].st = "send"
          /\ DOMAIN loops' = DOMAIN loops
          /\ \A j \in DOMAIN loops : j # k => loops'[j] = loops[j]
          /\ loops'[k].st = "run"
          /\ loops'[k].domain.DomainName = loops[k].domain.DomainName
          /\ loops'[k].domain.SubDomains = loops[k].domain.SubDomains
          /\ loops'[k].pc = "top"
          /\ loops'[k].looping = FALSE
          /\ loops'[k].lastIP = ""
          /\ loops'[k].cur = ""
          /\ loops'[k].recs = <<>>]_vars

\* C4 witness: a restarted Cloudflare loop at its first statement, while the
\* loop it replaces had published an address (and so had set its lastIP)
C4_Witness ==
  /\ provider = CLOUDFLARE
  /\ Len(domains) = 1
  /\ panicCount >= 1
  /\ loops[1].st = "run" /\ loops[1].pc = "top" /\ ~loops[1].looping
  /\ loops[1].lastIP = ""
  /\ \E h \in AllHosts : published[h] = HostAddr[OnlineFamily(ipType)][2]

\* C5: panicCount starts at 0, grows by exactly 1 with every failure report
\* received, whichever domain reported, never shrinks, and is at all times
\* the number of reports received.
C5_GlobalCounter ==
  /\ panicCount = 0
  /\ [](panicCount = Received)
  /\ [][/\ panicCount' \in {panicCount, panicCount + 1}
        /\ (\E k \in DOMAIN loops : loops[k].st = "send" /\ loops'[k].st = "run")
             => panicCount' = panicCount + 1]_vars

\* C5 witness: reports of both domains have been counted
C5_Witness ==
  /\ Len(domains) = 2
  /\ panicCount = 3
  /\ Received = 3
  /\ proc = "running"

\* C6 as stated: in an iteration in which no source gives the current IP no
\* call to the Provider Client and no notification is made.
C6_Original ==
  \A k \in DOMAIN loops :
     loops[k].ipFailed => CallsOf(loops[k], ProviderCalls \cup {"notify"}) = {}

\* C7 as stated: an iteration in which the update of a tracked sub domain
\* failed does not end in a state in which the same current IP is skipped:
\* the Cloudflare loop's lastIP is not that current IP.
C7_Original ==
  \A k \in DOMAIN loops :
     (/\ loops[k].st = "run" /\ loops[k].pc = "top"
      /\ loops[k].failed # {}
      /\ provider = CLOUDFLARE)
       => loops[k].lastIP # loops[k].cur

\* C8 as stated: every notification for a host follows a successful update of
\* that host in the same pass.
C8_Original ==
  \A k \in DOMAIN loops :
     \A i \in CallsOf(loops[k], {"notify"}) :
        \E j \in CallsOf(loops[k], {"update"}) :
           /\ j < i
           /\ loops[k].calls[j].h = loops[k].calls[i].h
           /\ loops[k].calls[j].ok

\* C9: a pass over a sub domain whose published address equals the current
\* IP of the iteration issues no update and no notification for it, in every
\* iteration: every update and notification of a pass is for a host whose
\* published address differed from the current IP when the pass began.
C9_Idempotent ==
  [][\A k \in DOMAIN loops :
       (loops[k].st = "run" /\ loops[k].pc = "subs" /\ loops'[k] # loops[k]) =>
         \A i \in CallsOf(loops'[k], {"update", "notify"}) :
            published[loops'[k].calls[i].h] # loops[k].cur]_vars

\* C9 witness: in a later iteration a pass found the published address equal
\* to the current IP, after the address had changed and been published, and
\* made no call but the lookup
C9_Witness ==
  \E k \in DOMAIN loops :
     /\ loops[k].st = "run" /\ loops[k].pc = "top"
     /\ ipChanges = 1
     /\ loops[k].cur = HostIP(OnlineFamily(ipType))
     /\ \A i \in 1..Len(loops[k].domain.SubDomains) :
          published[Hostname(loops[k].domain.SubDomains[i],
                             loops[k].domain.DomainName)] = loops[k].cur
     /\ CallsOf(loops[k], {"update", "notify"}) = {}
     /\ CallsOf(loops[k], {"resolve"}) # {}

\* the hosts of a domain's sub domains
Tracked(domain) ==
  {Hostname(domain.SubDomains[i], domain.DomainName) :
     i \in 1..Len(domain.SubDomains)}

\* C10 as stated: while every call to a collaborator has succeeded, at the
\* end of an iteration that went through its sub domains with a current IP
\* the published address of every tracked sub domain is that current IP.
C10_Original ==
  \A k \in DOMAIN loops :
     (/\ loops[k].st = "run" /\ loops[k].pc = "top"
      /\ healthy
      /\ loops[k].cur # ""
      /\ loops[k].calls # <<>>)
       => \A h \in Tracked(loops[k].domain) : published[h] = loops[k].cur

\* the number of elements of the range loop of a goroutine
RangeLen(l) ==
  IF provider = CLOUDFLARE THEN Len(l.recs) ELSE Len(l.domain.SubDomains)

\* goroutine k takes a pass of its range loop and goes on running
PassOf(k) ==
  /\ loops[k].st = "run" /\ loops[k].pc = "subs"
  /\ loops'[k] # loops[k]
  /\ loops'[k].st = "run"

\* C11: a pass in which a provider call (list or update) for one sub domain
\* fails, and which is not the last, is followed in the same iteration by the
\* pass of the next sub domain, with the current IP and the provider-wide
\* lookups of the iteration as they were: the other sub domains are checked
\* and updated as if nothing had failed.
C11_SubdomainIsolation ==
  [][\A k \in DOMAIN loops :
       (/\ PassOf(k)
        /\ \E i \in CallsOf(loops'[k], ProviderCalls) : ~loops'[k].calls[i].ok
        /\ loops[k].idx < RangeLen(loops[k]))
         => /\ loops'[k].pc = "subs"
            /\ loops'[k].idx = loops[k].idx + 1
            /\ loops'[k].cur = loops[k].cur
            /\ loops'[k].domain = loops[k].domain
            /\ loops'[k].recs = loops[k].recs
            /\ loops'[k].domainID = loops[k].domainID]_vars

\* C11 witness: in one iteration the update of one sub domain failed and the
\* update of another one went through and is published
C11_Witness ==
  \E k \in DOMAIN loops :
     /\ loops[k].st = "run"
     /\ \E h \in loops[k].failed :
          \E i \in CallsOf(loops[k], {"update"}) :
             /\ loops[k].calls[i].ok
             /\ loops[k].calls[i].h # h
             /\ published[loops[k].calls[i].h] = loops[k].cur
             /\ published[h] # loops[k].cur

\* C12 as stated: no goroutine sends a failure report because of the
\* Notifier: whatever current IP (IPv4 or IPv6) an iteration obtained, none
\* is in the send of its report after a panic in SendNotify.
C12_Original ==
  \A k \in DOMAIN loops :
     (loops[k].st = "send" /\ ~loops[k].ipFailed) =>
       \A i \in CallsOf(loops[k], {"notify"}) : loops[k].calls[i].ok

\* the calls of a kind a goroutine made for a host in its last step
CallsFor(l, kind, host) == {i \in CallsOf(l, {kind}) : l.calls[i].h = host}

\* C13 as stated: in an iteration that obtained its current IP, a sub domain
\* whose published address differs from it, with the lookups succeeding, gets
\* exactly one update call, carrying that current IP, and a successful
\* update is followed by exactly one notification with it.  For the loops
\* that resolve the name this is said of every pass; for the Cloudflare loop,
\* whose iteration may end without any provider call, of such an iteration.
C13_Original ==
  \A k \in DOMAIN loops :
     (loops[k].st = "run" /\ ~loops[k].ipFailed) =>
       /\ \A i \in CallsOf(loops[k], {"resolve"}) :
            (/\ loops[k].calls[i].ok
             /\ loops[k].calls[i].ip # loops[k].cur
             /\ \A j \in CallsOf(loops[k], {"getSubDomain", "getDomainRecords"}) :
                  loops[k].calls[j].ok)
              => /\ Cardinality(CallsFor(loops[k], "update", loops[k].calls[i].h)) = 1
                 /\ \A j \in CallsFor(loops[k], "update", loops[k].calls[i].h) :
                      /\ loops[k].calls[j].ip = loops[k].cur
                      /\ loops[k].calls[j].ok =>
                           Cardinality(CallsFor(loops[k], "notify",
                                                loops[k].calls[i].h)) = 1
       /\ \A i \in CallsOf(loops[k], {"update", "notify"}) :
            loops[k].calls[i].ip = loops[k].cur
       /\ (/\ provider = CLOUDFLARE
           /\ loops[k].pc = "top" /\ loops[k].looping
           /\ loops[k].failed = {}
           /\ CallsOf(loops[k], ProviderCalls) = {})
            => \A h \in Tracked(loops[k].domain) : published[h] = loops[k].cur

\* the listings of the Provider Client
Listings == {"getSubDomain", "getDomainRecords", "getDNSRecords"}

\* C14: a step in which the provider's listing gives no record makes no
\* update call and no notification and does not fail, and when it is a pass
\* that is not the last, the pass of the next sub domain follows in the same
\* iteration.
C14_EmptyListing ==
  /\ [](\A k \in DOMAIN loops :
          (\E i \in CallsOf(loops[k], Listings) : ~loops[k].calls[i].ok)
            => /\ CallsOf(loops[k], {"update", "notify"}) = {}
               /\ loops[k].st = "run")
  /\ [][\A k \in DOMAIN loops :
          (/\ PassOf(k)
           /\ \E i \in CallsOf(loops'[k], Listings) : ~loops'[k].calls[i].ok
           /\ loops[k].idx < RangeLen(loops[k]))
            => /\ loops'[k].pc = "subs"
               /\ loops'[k].idx = loops[k].idx + 1
               /\ loops'[k].cur = loops[k].cur]_vars

\* C14 witness: the listing gave no record for the first sub domain, whose
\* published address differs from the current IP, and the loop is at the
\* second
C14_Witness ==
  \E k \in DOMAIN loops :
     /\ loops[k].st = "run" /\ loops[k].pc = "subs" /\ loops[k].idx = 2
     /\ ~loops[k].ipFailed
     /\ \E i \in CallsOf(loops[k], {"getDomainRecords"}) :
          /\ ~loops[k].calls[i].ok
          /\ published[loops[k].calls[i].h] # loops[k].cur

\* C15: a pass in which the resolution of the host name fails makes no call
\* to the Provider Client and no notification and does not fail, and when it
\* is not the last pass, the pass of the next sub domain follows in the same
\* iteration with the same current IP: only that sub domain is skipped.
C15_ResolveFailureSkipsOne ==
  /\ [](\A k \in DOMAIN loops :
          (\E i \in CallsOf(loops[k], {"resolve"}) : ~loops[k].calls[i].ok)
            => /\ CallsOf(loops[k], ProviderCalls \cup {"notify"}) = {}
               /\ loops[k].st = "run")
  /\ [][\A k \in DOMAIN loops :
          (/\ PassOf(k)
           /\ \E i \in CallsOf(loops'[k], {"resolve"}) : ~loops'[k].calls[i].ok
           /\ loops[k].idx < RangeLen(loops[k]))
            => /\ loops'[k].pc = "subs"
               /\ loops'[k].idx = loops[k].idx + 1
               /\ loops'[k].cur = loops[k].cur
               /\ loops'[k].domain = loops[k].domain]_vars

\* C15 witness: the resolution of the first sub domain failed while its
\* published address differs from the current IP, and the loop is at the
\* second sub domain
C15_Witness ==
  \E k \in DOMAIN loops :
     /\ loops[k].st = "run" /\ loops[k].pc = "subs" /\ loops[k].idx = 2
     /\ ~loops[k].ipFailed
     /\ \E i \in CallsOf(loops[k], {"resolve"}) :
          /\ ~loops[k].calls[i].ok
          /\ loops[k].calls[i].h =
               Hostname(loops[k].domain.SubDomains[1], loops[k].domain.DomainName)
          /\ published[loops[k].calls[i].h] # loops[k].cur

\* a step of the loop of goroutine k
LoopStep(k) ==
  \/ HEIterate(k) \/ HESubDomain(k)
  \/ CFIterate(k) \/ CFRecordStep(k)
  \/ DNSPodIterate(k) \/ DNSPodSubDomain(k)
  \/ AliIterate(k) \/ AliSubDomain(k)

\* C16: a step of one goroutine (a step of its loop, its fault, its
\* replacement by dnsLoop) changes the state of no other goroutine, and while
\* the process runs a goroutine that has not faulted can take its next step
\* whatever the others do: whether they are blocked reporting a fault or
\* never take another step.
C16_SiblingsUnaffected ==
  /\ [][\A k, j \in DOMAIN loops :
          (j # k /\ loops'[k] # loops[k]) => loops'[j] = loops[j]]_vars
  /\ [](\A j \in DOMAIN loops :
          (proc = "running" /\ loops[j].st = "run") => ENABLED LoopStep(j))

\* C16 witness: after a restart one domain's loop has faulted again and is
\* blocked in its report while the other domain's loop is in the range loop
\* of a later iteration
C16_Witness ==
  /\ Len(domains) = 2
  /\ proc = "running"
  /\ panicCount >= 1
  /\ \E k \in DOMAIN loops :
       /\ loops[k].st = "send"
       /\ loops[3 - k].st = "run"
       /\ loops[3 - k].pc = "subs"
       /\ CallsOf(loops[3 - k], {"sleep"}) # {}

\* the indices of the goroutines: DomainConfigs holds at most two domains
LoopIds == {1, 2}

\* C17: every receive of dnsLoop takes exactly one report, of one sender,
\* and counts it once; every step keeps the account of reports (those made
\* are those being sent and those received: none lost, none twice); and a
\* goroutine in the send of its report does not stay there: its report is
\* received, or the process has exited.
C17_ReportsReceivedOnce ==
  /\ [][panicCount' # panicCount =>
          /\ panicCount' = panicCount + 1
          /\ faults' = faults
          /\ \E k \in Sending : Sending' = Sending \ {k}]_vars
  /\ [][Cardinality(Sending') - Cardinality(Sending) =
          (faults' - faults) - (panicCount' - panicCount)]_vars
  /\ \A k \in LoopIds :
        (k \in DOMAIN loops /\ loops[k].st = "send")
          ~> (proc = "exited" \/ (k \in DOMAIN loops /\ loops[k].st = "run"))

\* C17 witness: after a first report has been received, the loops of both
\* domains are in the send of a report at the same time
C17_Witness ==
  /\ proc = "running"
  /\ panicCount >= 1
  /\ Cardinality(Sending) = 2

\* C18 as stated: in a Cloudflare loop instance, once lastIP is not empty
\* every assignment that changes it gives it the current IP of the
\* iteration, never another value and never "".
C18_Original ==
  [][\A k \in DOMAIN loops :
       (/\ provider = CLOUDFLARE
        /\ panicCount' = panicCount
        /\ loops[k].lastIP # ""
        /\ loops'[k].lastIP # loops[k].lastIP)
         => loops'[k].lastIP = loops'[k].cur]_vars

\* the host names of a domain's sub domains, in the configured order
Configured(domain) ==
  [i \in 1..Len(domain.SubDomains) |->
     Hostname(domain.SubDomains[i], domain.DomainName)]

\* the tracked hosts whose pass is over in the iteration of a goroutine that
\* is in its range loop: those of the elements before the present one
Done(l) ==
  IF provider = CLOUDFLARE
    THEN {l.recs[i].Name : i \in {j \in 1..(l.idx - 1) :
                                    recordTracked(l.domain, l.recs[j])}}
    ELSE {Configured(l.domain)[i] : i \in 1..(l.idx - 1)}

\* C19 as stated: within an iteration the tracked sub domains are processed
\* in the configured order: when the pass of a sub domain is over, so are the
\* passes of the sub domains configured before it.
C19_Original ==
  \A k \in DOMAIN loops :
     (loops[k].st = "run" /\ loops[k].pc = "subs") =>
       \A i \in 1..Len(loops[k].domain.SubDomains) :
          Configured(loops[k].domain)[i] \in Done(loops[k]) =>
            \A j \in 1..(i - 1) : Configured(loops[k].domain)[j] \in Done(loops[k])

\* goroutine k takes the head of an iteration
HeadOf(k) ==
  /\ loops[k].st = "run" /\ loops[k].pc = "top"
  /\ loops'[k] # loops[k]

\* C20: a loop instance that has not begun an iteration has looping false
\* and has made no call; the head of its first iteration (looping false)
\* sleeps not at all, the head of every later one (looping true, whatever
\* ended the iteration before) sleeps exactly once, before any other call of
\* the iteration; and a pass of the range loop never sleeps.
C20_SleepBetweenIterations ==
  /\ [](\A k \in DOMAIN loops :
          ~loops[k].looping =>
            loops[k].pc = "top" /\ loops[k].calls = <<>> /\ loops[k].cur = "")
  /\ [][\A k \in DOMAIN loops :
          /\ HeadOf(k) =>
               /\ loops'[k].looping
               /\ Cardinality(CallsOf(loops'[k], {"sleep"})) =
                    (IF loops[k].looping THEN 1 ELSE 0)
               /\ CallsOf(loops'[k], {"sleep"}) \subseteq {1}
          /\ PassOf(k) => CallsOf(loops'[k], {"sleep"}) = {}]_vars

\* C20 witness: a later iteration of a loop instance has slept once and was
\* then cut short by an error (GetDomain failed), so that the next head
\* follows a skipped iteration
C20_Witness ==
  \E k \in DOMAIN loops :
     /\ loops[k].st = "run" /\ loops[k].pc = "top" /\ loops[k].looping
     /\ Len(loops[k].calls) = 2
     /\ loops[k].calls[1].k = "sleep"
     /\ loops[k].calls[2].k = "getDomain" /\ ~loops[k].calls[2].ok

\* a goroutine whose last step met an error of a collaborator
Erred(l) == l.ipFailed \/ \E i \in 1..Len(l.calls) : ~l.calls[i].ok

\* C21: a goroutine is executing its loop or is in the send of its report
\* after a panic, nothing else; a step of its loop leaves it executing the
\* loop for the same domain unless the step panics; and a goroutine whose
\* step met an error (IP discovery, resolution, provider call) without a
\* panic is in its loop and, while the process runs, can take the next step.
C21_OnlyFaultEndsLoop ==
  /\ [](\A k \in DOMAIN loops : loops[k].st \in {"run", "send"})
  /\ [][\A k \in DOMAIN loops :
          (loops[k].st = "run" /\ loops'[k] # loops[k]) =>
            /\ \/ loops'[k].st = "run" /\ faults' = faults
               \/ loops'[k].st = "send" /\ faults' = faults + 1
            /\ loops'[k].domain = loops[k].domain
            /\ panicCount' = panicCount]_vars
  /\ [](\A k \in DOMAIN loops :
          (proc = "running" /\ loops[k].st = "run" /\ Erred(loops[k])) =>
            loops[k].looping /\ ENABLED LoopStep(k))

\* C21 witness: the one loop instance of the run, never restarted, has met
\* errors and is in the range loop of a later iteration
C21_Witness ==
  /\ Len(domains) = 1
  /\ faults = 0
  /\ ~healthy
  /\ loops[1].st = "run" /\ loops[1].pc = "subs"
  /\ CallsOf(loops[1], {"sleep"}) # {}

\* the settings are rejected: main has loaded them and found an error
Rejected ==
  /\ ~optHelp
  /\ loadErr \/ CheckSettings(provider, email, password, loginToken) # Nil

\* C22: when loading or checking the settings fails, no DomainLoop goroutine
\* ever exists, no provider call is ever made (no record changes, no call
\* fails), and main's step ends the process with status 1
C22_RejectedSettingsStartNothing ==
  /\ [](Rejected =>
          /\ loops = <<>>
          /\ published = [h \in AllHosts |-> HostAddr[OnlineFamily(ipType)][1]]
          /\ faults = 0 /\ healthy
          /\ proc \in {"starting", "exited"}
          /\ proc = "exited" => exitCode = 1)
  /\ [][(proc = "starting" /\ Rejected) => (proc' = "exited" /\ exitCode' = 1)]_vars

C22_Witness ==
  /\ proc = "exited" /\ exitCode = 1
  /\ ~optHelp /\ ~loadErr
  /\ provider = HE /\ password = "" /\ loginToken = "secret"

\* C26: once the settings have been loaded and accepted, the handler created
\* for the provider is not nil: the process does not die of a call on the nil
\* interface, and dnsLoop starts one DomainLoop per configured domain
C26_AcceptedProviderHasHandler ==
  (~optHelp /\ ~loadErr /\ CheckSettings(provider, email, password, loginToken) = Nil) =>
    /\ CreateHandler(provider) # NilHandler
    /\ exitCode # 2
    /\ proc = "starting" \/ Len(loops) = Len(domains)

C26_Witness ==
  /\ proc = "running" /\ provider = NOIP
  /\ Len(loops) = 1 /\ loops[1].domain = domains[1]

\* C23: GetCurrentIP gives a non-empty address or an error, so a goroutine
\* whose sources all failed stays at the head of its loop: none is in its
\* range loop with an empty currentIP, and none sends an empty address to
\* the provider
C23_Original ==
  \A k \in DOMAIN loops :
    /\ loops[k].pc = "subs" => (loops[k].cur # "" /\ ~loops[k].ipFailed)
    /\ \A i \in CallsOf(loops[k], {"update"}) : loops[k].calls[i].ip # ""

\* C24: the update of a host is decided by the equality of the current IP and
\* the published address after trailing newlines and white space are cut
\* from both: in a pass of the he, dnspod and alidns loops that resolved the
\* host and in which no call failed, the update is requested exactly when the
\* two differ after the cut; the Cloudflare loop requests no update of a
\* record whose value equals the current IP after the cut
C24_Original ==
  LET TrimSpace(s) ==
        IF \E p \in Addresses \cup {""}, w \in {"", "\r", " ", "\n"} : s = p \o w
          THEN CHOOSE p \in Addresses \cup {""} :
                 \E w \in {"", "\r", " ", "\n"} : s = p \o w
          ELSE s
  IN  \A k \in DOMAIN loops :
        LET l == loops[k]
        IN  /\ \A i \in CallsOf(l, {"resolve"}) :
                 (l.st = "run" /\ \A j \in 1..Len(l.calls) : l.calls[j].ok) =>
                   ((CallsOf(l, {"update"}) # {}) <=>
                      (TrimSpace(l.cur) # TrimSpace(l.calls[i].ip)))
            /\ \A i \in CallsOf(l, {"update"}), j \in 1..Len(l.recs) :
                 l.recs[j].Name = l.calls[i].h =>
                   TrimSpace(l.recs[j].IP) # TrimSpace(l.calls[i].ip)

\* the goroutines that a step starts at the first statement of DomainLoop
Started ==
  {k \in DOMAIN loops' :
     /\ loops'[k].st = "run"
     /\ k \in DOMAIN loops => loops[k].st # "run"}

\* C25: no domain ever has two goroutines executing the loop; a step that
\* starts a goroutine starts exactly one, in place of a goroutine that had
\* stopped iterating and was handing over its report, for the domain of that
\* report; the report is thereby received (one sender fewer, one more
\* counted) and every other goroutine is as it was
C25_NoOverlappingInstances ==
  /\ [](\A d \in 1..Len(domains) : Cardinality(ActiveOf(domains[d])) <= 1)
  /\ [][Started # {} =>
          /\ Cardinality(Started) = 1
          /\ \A k \in Started :
                /\ k \in Sending
                /\ loops'[k].domain = loops[k].msg
                /\ Sending' = Sending \ {k}
                /\ \A j \in DOMAIN loops' :
                      j # k => (j \in DOMAIN loops /\ loops'[j] = loops[j])
          /\ panicCount' = panicCount + 1]_vars

C25_Witness ==
  /\ Len(domains) = 2
  /\ panicCount = 2 /\ faults = 2
  /\ \A d \in 1..2 : Cardinality(ActiveOf(domains[d])) = 1
  /\ loops[1].calls # <<>> /\ loops[2].calls # <<>>

\* GetIPFromInterface: the family of the addresses it does not skip
InterfaceFamily(t) ==
  IF ToUpper(t) = IPV4 THEN "v4" ELSE IF ToUpper(t) = IPV6 THEN "v6" ELSE "none"

\* ResolveDNS: dns.TypeA for "" and IPV4, dns.TypeAAAA otherwise
ResolveFamily(t) == IF t = "" \/ ToUpper(t) = IPV4 THEN "v4" ELSE "v6"

\* dnspod.Handler.GetSubDomain: the record_type of its Record.List request
ListRecordType(t) ==
  IF t = "" \/ ToUpper(t) = IPV4 THEN "A"
  ELSE IF ToUpper(t) = IPV6 THEN "AAAA" ELSE "none"

\* dnspod.Handler.UpdateIP: the record_type of its Record.Modify request
ModifyRecordType(t) ==
  IF ToUpper(t) = IPV4 THEN "A"
  ELSE IF ToUpper(t) = IPV6 THEN "AAAA" ELSE "none"

\* C27: under the configured ip_type every step selects the same family:
\* the interface lookup and the resolver the family of the online lookup,
\* DNSPod's update the record type of DNSPod's listing; and a DNSPod pass
\* that listed the record of a host whose address differs from the current
\* IP sends the modify request
C27_Original ==
  /\ InterfaceFamily(ipType) = OnlineFamily(ipType)
  /\ ResolveFamily(ipType) = OnlineFamily(ipType)
  /\ ModifyRecordType(ipType) = ListRecordType(ipType)
  /\ \A k \in DOMAIN loops :
        (/\ provider = DNSPOD /\ loops[k].st = "run"
         /\ \E i \in CallsOf(loops[k], {"getSubDomain"}) : loops[k].calls[i].ok
         /\ \E i \in CallsOf(loops[k], {"resolve"}) :
               loops[k].calls[i].ok /\ loops[k].calls[i].ip # loops[k].cur)
          => CallsOf(loops[k], {"update"}) # {}

\* the hosts that no configured domain tracks
Untracked == AllHosts \ UNION {Tracked(domains[d]) : d \in 1..Len(domains)}

\* C28: every update and every notification of a Cloudflare goroutine is
\* for a record named <sub domain>.<domain name> of its own Domain, and no
\* step of a Cloudflare loop changes a record that the Domain does not track
C28_OnlyTrackedRecords ==
  /\ [](provider = CLOUDFLARE =>
          \A k \in DOMAIN loops :
            \A i \in CallsOf(loops[k], {"update", "notify"}) :
              \E j \in 1..Len(loops[k].domain.SubDomains) :
                loops[k].calls[i].h =
                  loops[k].domain.SubDomains[j] \o "." \o loops[k].domain.DomainName)
  /\ [][provider = CLOUDFLARE =>
          \A h \in Untracked : published'[h] = published[h]]_vars

\* C28 witness: the zone lists b.example.com and a.example.com, the Domain
\* tracks only a; after the host's address changed the loop has passed over
\* both records and has updated a, and b has the old address
C28_Witness ==
  /\ provider = CLOUDFLARE
  /\ "b.example.com" \in Untracked
  /\ ipChanges = 1
  /\ published["a.example.com"] = HostAddr.v4[2]
  /\ published["b.example.com"] = HostAddr.v4[1]
  /\ loops[1].st = "run" /\ loops[1].pc = "top"
  /\ CallsFor(loops[1], "update", "a.example.com") # {}
====
